---------------------------- MODULE Spec2Model ----------------------------
(***************************************************************************)
(* Model of the WXT520 driver (bin/weewx/drivers/wxt520.py): the line      *)
(* reader Station.get_readings, the decoder Station.parse_readings, the    *)
(* enrichment WXT520Driver._augment_packet and the retry loop              *)
(* WXT520Driver.genLoopPackets.                                            *)
(*                                                                         *)
(* Representation.  Python str values are TLA+ strings.  Python floats are *)
(* integers counting hundredths (2.2 is 220), wrapped in a one-element     *)
(* tuple so that they can be compared with None, the empty tuple.  Python  *)
(* dicts are functions from key strings to values.  Time is counted in     *)
(* half seconds so that int(time.time() + 0.5) really rounds.              *)
(***************************************************************************)
EXTENDS Integers, Sequences, FiniteSets, TLC

(***************************************************************************)
(* Bounds of the model.                                                    *)
(***************************************************************************)
MaxTriesCfg == 3        \* max_tries is configured in -1 .. MaxTriesCfg
MaxRecords  == 2        \* genLoopPackets is resumed while fewer records were yielded
MaxTime     == 2        \* the clock stops at MaxTime half seconds

(***************************************************************************)
(* Python values.                                                          *)
(***************************************************************************)
None     == <<>>
Float(h) == <<h>>                  \* h hundredths
Val(v)   == v[1]
EmptyDict == [k \in {} |-> None]

\* dict.update: the keys of new override those of old
Update(old, new) == new @@ old

(***************************************************************************)
(* str operations                                                          *)
(***************************************************************************)
Char(s, i)  == SubSeq(s, i, i)
From(s, i)  == SubSeq(s, i, Len(s))
Digits      == {"0", "1", "2", "3", "4", "5", "6", "7", "8", "9"}

DigitVal(c) ==
  CASE c = "0" -> 0 [] c = "1" -> 1 [] c = "2" -> 2 [] c = "3" -> 3
    [] c = "4" -> 4 [] c = "5" -> 5 [] c = "6" -> 6 [] c = "7" -> 7
    [] c = "8" -> 8 [] c = "9" -> 9

\* s.replace(old, '') for a non-empty old
RECURSIVE Remove(_, _)
Remove(s, old) ==
  IF Len(s) < Len(old) THEN s
  ELSE IF SubSeq(s, 1, Len(old)) = old THEN Remove(From(s, Len(old) + 1), old)
  ELSE Char(s, 1) \o Remove(From(s, 2), old)

\* index of the first occurrence of the character sep in s, 0 if none
RECURSIVE Find(_, _, _)
Find(s, sep, i) ==
  IF i > Len(s) THEN 0
  ELSE IF Char(s, i) = sep THEN i
  ELSE Find(s, sep, i + 1)

\* s.split(sep) for a one-character sep: always at least one piece
RECURSIVE Split(_, _)
Split(s, sep) ==
  LET i == Find(s, sep, 1)
  IN  IF i = 0 THEN <<s>>
      ELSE <<SubSeq(s, 1, i - 1)>> \o Split(From(s, i + 1), sep)

RECURSIVE AllDigits(_)
AllDigits(s) == s = "" \/ (Char(s, 1) \in Digits /\ AllDigits(From(s, 2)))

RECURSIVE StrToNat(_, _)
StrToNat(s, acc) ==
  IF s = "" THEN acc ELSE StrToNat(From(s, 2), 10 * acc + DigitVal(Char(s, 1)))


(***************************************************************************)
(* Results of calls that may raise: exc is "" on a normal return, else the *)
(* name of the exception class.                                            *)
(***************************************************************************)
Ok(v)    == [exc |-> "", val |-> v]
Raise(e) == [exc |-> e, val |-> None]

(***************************************************************************)
(* float(s) on decimal literals: an optional sign, digits, at most one     *)
(* '.', at least one digit; anything else raises ValueError.  (The lines   *)
(* of the model use no exponent, "inf", "nan" or blanks, which float()     *)
(* also accepts.)  The value is kept to two decimals.                      *)
(***************************************************************************)
float(s) ==
  LET neg   == Len(s) > 0 /\ Char(s, 1) = "-"
      body  == IF Len(s) > 0 /\ Char(s, 1) \in {"+", "-"} THEN From(s, 2) ELSE s
      parts == Split(body, ".")
      int   == parts[1]
      frac  == IF Len(parts) = 2 THEN parts[2] ELSE ""
      valid == /\ Len(parts) <= 2
               /\ AllDigits(int) /\ AllDigits(frac)
               /\ int \o frac # ""
      mag   == 100 * StrToNat(int, 0) + StrToNat(SubSeq(frac \o "00", 1, 2), 0)
  IN  IF valid THEN Ok(Float(IF neg THEN 0 - mag ELSE mag))
      ELSE Raise("ValueError")

\* remove_unit(string): float(string[:-1])
remove_unit(string) == float(SubSeq(string, 1, Len(string) - 1))

(***************************************************************************)
(* Station.get_readings                                                    *)
(***************************************************************************)
\* re.match('^\dR\d', s)
re_match_comma(s) ==
  /\ Len(s) >= 4
  /\ Char(s, 1) \in Digits
  /\ Char(s, 2) = "R"
  /\ Char(s, 3) \in Digits
  /\ Char(s, 4) = ","
re_match(s) ==
  /\ Len(s) >= 3
  /\ Char(s, 1) \in Digits
  /\ Char(s, 2) = "R"
  /\ Char(s, 3) \in Digits

\* every x.split('=') of the tokens unpacks into exactly (k, v)
RECURSIVE PairsOk(_)
PairsOk(tokens) ==
  tokens = <<>> \/ (Len(Split(Head(tokens), "=")) = 2 /\ PairsOk(Tail(tokens)))

\* dict((k, v) for k, v in [x.split('=') for x in tokens]): a later token wins
RECURSIVE DictOf(_)
DictOf(tokens) ==
  IF tokens = <<>> THEN EmptyDict
  ELSE LET kv == Split(Head(tokens), "=")
       IN  DictOf(Tail(tokens)) @@ (kv[1] :> kv[2])

\* the body of the 'if re.match' branch: the dict d, or ValueError when an
\* unpacking fails
SplitLine(s) ==
  LET ss    == Split(s, ",")
      first == Split(ss[1], "R")
  IN  IF Len(first) # 2 THEN Raise("ValueError")
      ELSE IF ~PairsOk(Tail(ss)) THEN Raise("ValueError")
      ELSE Ok(Update(("station_id" :> first[1]) @@ ("pkt_type" :> first[2]),
                     DictOf(Tail(ss))))

\* one pass of 'while s == ""' on the line raw returned by readline(): the
\* loop goes round again ("again"), returns d ("return") or, when the line
\* is not empty and did not match, reaches 'return d' with d unbound
ReadPass_once(raw) ==
  LET s == Remove(raw, "\r\n")
  IN  IF re_match(s)
        THEN LET r == SplitLine(s)
             IN  [kind |-> IF r.exc = "" THEN "return" ELSE "raise",
                  exc |-> r.exc, val |-> r.val]
      ELSE [kind |-> "raise", exc |-> "UnboundLocalError", val |-> None]
ReadPass(raw) ==
  LET s == Remove(raw, "\r\n")
  IN  IF re_match(s)
        THEN LET r == SplitLine(s)
             IN  [kind |-> IF r.exc = "" THEN "return" ELSE "raise",
                  exc |-> r.exc, val |-> r.val]
      ELSE IF s = ""
        THEN [kind |-> "again", exc |-> "", val |-> None]
      ELSE [kind |-> "raise", exc |-> "UnboundLocalError", val |-> None]

(***************************************************************************)
(* Station.parse_readings                                                  *)
(***************************************************************************)
\* <<canonical field, wire code>> in the order of the assignments
WindFields_swapped ==
  << <<"windSpeedMax", "Sx">>, <<"windSpeed", "Sm">>,
     <<"windSpeedMin", "Sn">>, <<"windDirMax", "Dn">>,
     <<"windDir", "Dm">>, <<"windDirMin", "Dx">> >>
WindFields   == << <<"windSpeedMax", "Sx">>, <<"windSpeed", "Sm">>,
                   <<"windSpeedMin", "Sn">>, <<"windDirMax", "Dx">>,
                   <<"windDir", "Dm">>, <<"windDirMin", "Dn">> >>
PTUFields    == << <<"pressure", "Pa">>, <<"outHumidity", "Ua">>,
                   <<"outTemp", "Ta">> >>
PrecipFields == << <<"rainAccumulation", "Rc">>, <<"rainDuration", "Rd">>,
                   <<"rainIntensity", "Ri">>, <<"rainPeakIntensity", "Rp">>,
                   <<"hailAccumulation", "Hc">>, <<"hailDuration", "Hd">>,
                   <<"hailIntensity", "Hi">>, <<"hailPeakIntensity", "Hp">> >>
SuperFields  == << <<"heatingTemp", "Th">>, <<"heatingVoltage", "Vh">>,
                   <<"supplyVoltage", "Vs">>, <<"referenceVoltage", "Vr">> >>

\* the if/elif chain on b["pkt_type"]
FieldsOfType_noelse(t) ==
  IF t = "1" THEN WindFields
  ELSE IF t = "2" THEN PTUFields
  ELSE IF t = "3" THEN PrecipFields
  ELSE SuperFields
FieldsOfType(t) ==
  IF t = "1" THEN WindFields
  ELSE IF t = "2" THEN PTUFields
  ELSE IF t = "3" THEN PrecipFields
  ELSE IF t = "5" THEN SuperFields
  ELSE <<>>

\* data[name] = remove_unit(b[code]) for each pair in turn; b[code] raises
\* KeyError when the code is absent, remove_unit raises ValueError
RECURSIVE Extract(_, _, _)
Extract(b, fields, data) ==
  IF fields = <<>> THEN Ok(data)
  ELSE LET name == Head(fields)[1]
           code == Head(fields)[2]
       IN  IF code \notin DOMAIN b THEN Raise("KeyError")
           ELSE LET r == remove_unit(b[code])
                IN  IF r.exc # "" THEN r
                    ELSE Extract(b, Tail(fields), Update(data, name :> r.val))

\* the constants assigned whatever the type
FakeFields ==
  ("inTemp" :> Float(2000)) @@ ("inHumidity" :> Float(40)) @@
  ("daily_rain" :> Float(301)) @@ ("wind_average" :> Float(1200))

parse_readings_rc(b) ==
  LET ltr == IF b["pkt_type"] = "3" /\ "Rc" \in DOMAIN b
               THEN remove_unit(b["Rc"]).val ELSE Float(0)
      r   == Extract(b, FieldsOfType(b["pkt_type"]), "long_term_rain" :> ltr)
  IN  IF r.exc # "" THEN r ELSE Ok(Update(r.val, FakeFields))
parse_readings(b) ==
  LET r == Extract(b, FieldsOfType(b["pkt_type"]), "long_term_rain" :> Float(0))
  IN  IF r.exc # "" THEN r ELSE Ok(Update(r.val, FakeFields))

(***************************************************************************)
(* WXT520Driver._augment_packet                                            *)
(***************************************************************************)
\* packet['rain']
RainDelta_clamped(last, long_term_rain) ==
  IF last = None THEN None
  ELSE IF Val(long_term_rain) < Val(last) THEN Float(0)
  ELSE Float(Val(long_term_rain) - Val(last))
RainDelta(last, long_term_rain) ==
  IF last # None THEN Float(Val(long_term_rain) - Val(last)) ELSE None

\* Python truth value of a float or None
Truthy(v) == v # None /\ Val(v) # 0

\* no wind direction when wind speed is zero
NullWindDir_never(p) == p
NullWindDir(p) ==
  IF "windSpeed" \in DOMAIN p /\ ~Truthy(p["windSpeed"])
    THEN Update(p, "windDir" :> None)
    ELSE p

\* the packet after the call; the new last_rain is packet['long_term_rain']
augment_packet(last, p) ==
  NullWindDir(Update(p, "rain" :> RainDelta(last, p["long_term_rain"])))


(***************************************************************************)
(* The driver as a state machine.                                          *)
(***************************************************************************)
VARIABLES
  max_tries, polling_interval, retry_wait,  \* WXT520Driver.__init__
  last_rain,                                \* self.last_rain
  pc,           \* where genLoopPackets stands: "loop" (the while test),
                \* "open", "read", "parse", "yield" (suspended at the yield),
                \* "except" (in the handler), "done" (the generator has ended)
  ntries,       \* the local ntries
  packet,       \* the local packet
  readings,     \* the local readings
  data,         \* the local data
  serial_port,  \* Station.serial_port of the attempt's Station
  exc,          \* the exception that ended the generator, "" if none
  now,          \* time.time(), in half seconds
  \* history, not read by the driver
  line,         \* the last line readline() returned
  sess,         \* serial.Serial objects built / close() calls in this attempt
  consec,       \* failed attempts since the last success
  nfail,        \* failed attempts so far
  yielded,      \* the last record handed to the caller
  nyield,       \* records yielded so far
  prev_ltr,     \* long_term_rain of the record yielded before the last one
  slept         \* the sleeps taken since the last attempt began

vars == <<max_tries, polling_interval, retry_wait, last_rain, pc, ntries,
          packet, readings, data, serial_port, exc, now, line, sess, consec,
          nfail, yielded, nyield, prev_ltr, slept>>

config == <<max_tries, polling_interval, retry_wait>>

\* weewx.US
US == 1

\* what serial_port.readline() may return: a whole line, a line cut short by
\* the timeout, or nothing
Lines ==
  { "", "\r\n",
    "0R1,Dn=045#,Dm=090#,Dx=180#,Sn=1.1M,Sm=2.2M,Sx=3.3M\r\n",
    "0R1,Dn=045#,Dm=090#,Dx=180#,Sn=0.0M,Sm=0.0M,Sx=0.5M\r\n",
    "0R2,Ta=21.2C,Ua=40.5P,Pa=1013.2H\r\n",
    "0R2,Ta=-1.5C,Ua=40.5P,Pa=1013.2H,Zz=9.9Q\r\n",
    "0R2,Ta=21.2C,Ua=40.5P,Pa=1013.2H,pkt_type=4\r\n",
    "0R3,Rc=0.05M,Rd=10s,Ri=0.1M,Rp=0.2M,Hc=0.0M,Hd=0s,Hi=0.0M,Hp=0.0M\r\n",
    "0R5,Th=25.1C,Vh=12.0N,Vs=15.2V,Vr=3.5V\r\n",
    "0R0,Dm=090#,Sm=0.0M,Ta=xxC\r\n",
    "0R4,Zz=1\r\n",
    "0R1x,Dm=090#\r\n",
    "0R1\r\n",
    "0R1,\r\n",
    "0R1R2,Dm=090#\r\n",
    "0R1,Dn=045#,Dm=0",
    "0R2,Ta=21.2C,Ua,Pa=1013.2H\r\n",
    "0R2,Ta=1=2C,Ua=40.5P,Pa=1013.2H\r\n",
    "0R2,Ta=2x.2C,Ua=40.5P,Pa=1013.2H\r\n",
    "0A1,Dm=090#\r\n",
    "xR1,Dm=090#\r\n",
    "garbage\r\n" }

\* get_readings and parse_readings on every line of Lines, worked out once
ReadOf  == [raw \in Lines |-> ReadPass(raw)]
ParseOf == [b \in {ReadOf[raw].val : raw \in {l \in Lines : ReadOf[l].kind = "return"}}
              |-> parse_readings(b)]

Min(a, b) == IF a < b THEN a ELSE b

\* time.sleep(seconds): the clock moves on (and stops at MaxTime)
Sleep(seconds) == Min(now + 2 * seconds, MaxTime)

\* the while test of genLoopPackets
WhileCond_le(n, m) == n <= m
WhileCond(n, m) == n < m

\* 'ntries = 0' after a successful attempt
AfterSuccess_keep(n) == n
AfterSuccess(n) == 0

\* int(time.time() + 0.5), the clock t being in half seconds
Stamp_floor(t) == t \div 2
Stamp(t) == (t + 1) \div 2

\* packet.update(data)
MergeData_replace(p, d) == d
MergeData(p, d) == Update(p, d)

\* self.last_rain = packet['long_term_rain']
NewLastRain_delta(p) == p["rain"]
NewLastRain(p) == p["long_term_rain"]

\* 'if self.polling_interval:'
PollSleeps_always(interval) == TRUE
PollSleeps(interval) == interval # 0

\* Station.close
StationClose(port, s) ==
  IF port # "None"
    THEN [port |-> "None", sess |-> [s EXCEPT !.closed = @ + 1]]
    ELSE [port |-> port, sess |-> s]

\* Station.__exit__, on every way out of the with block
StationExit_noclose(port, s) == [port |-> port, sess |-> s]
StationExit(port, s) == StationClose(port, s)

Init ==
  /\ max_tries \in -1 .. MaxTriesCfg
  /\ polling_interval \in {0, 1}
  /\ retry_wait \in {0, 1}
  /\ last_rain = None
  /\ pc = "loop"
  /\ ntries = 0
  /\ packet = EmptyDict
  /\ readings = EmptyDict
  /\ data = EmptyDict
  /\ serial_port = "None"
  /\ exc = ""
  /\ now = 0
  /\ line = ""
  /\ sess = [opened |-> 0, closed |-> 0]
  /\ consec = 0
  /\ nfail = 0
  /\ yielded = EmptyDict
  /\ nyield = 0
  /\ prev_ltr = None
  /\ slept = <<>>

\* 'while ntries < self.max_tries:' and, when it holds, the first statements
\* of the body; when it fails, the else clause raises RetriesExceeded
LoopTest ==
  /\ pc = "loop"
  /\ IF WhileCond(ntries, max_tries)
       THEN /\ ntries' = ntries + 1
            /\ packet' = ("dateTime" :> Stamp(now)) @@ ("usUnits" :> US)
            /\ pc' = "open"
            /\ sess' = [opened |-> 0, closed |-> 0]
            /\ slept' = <<>>
            /\ exc' = exc
       ELSE /\ pc' = "done"
            /\ exc' = "RetriesExceeded"
            /\ UNCHANGED <<ntries, packet, sess, slept>>
  /\ UNCHANGED <<config, last_rain, readings, data, serial_port, now, line,
                 consec, nfail, yielded, nyield, prev_ltr>>

\* 'with Station(self.port) as station': __enter__ calls open, and
\* serial.Serial either gives a port or raises SerialException, which the
\* except clause catches
Open ==
  /\ pc = "open"
  /\ \/ /\ serial_port' = "open"
        /\ sess' = [sess EXCEPT !.opened = @ + 1]
        /\ pc' = "read"
        /\ UNCHANGED <<consec, nfail>>
     \/ /\ pc' = "except"
        /\ consec' = consec + 1
        /\ nfail' = nfail + 1
        /\ UNCHANGED <<serial_port, sess>>
  /\ UNCHANGED <<config, last_rain, ntries, packet, readings, data, exc, now,
                 line, yielded, nyield, prev_ltr, slept>>

\* one readline() of station.get_readings() and what follows it.  The call
\* blocks, so time may pass.  readline raising SerialException leaves the
\* with block for the except clause; any other exception leaves the
\* generator.
Read ==
  /\ pc = "read"
  /\ \E tick \in {0, 1} :
       /\ now + tick <= MaxTime
       /\ now' = now + tick
  /\ \/ \* readline raises
        LET x == StationExit(serial_port, sess)
        IN  /\ serial_port' = x.port
            /\ sess' = x.sess
            /\ pc' = "except"
            /\ consec' = consec + 1
            /\ nfail' = nfail + 1
            /\ UNCHANGED <<readings, exc, line>>
     \/ \E raw \in Lines :
          LET r == ReadOf[raw]
              x == StationExit(serial_port, sess)
          IN  /\ line' = raw
              /\ UNCHANGED <<consec, nfail>>
              /\ IF r.kind = "again"
                   THEN /\ pc' = "read"
                        /\ UNCHANGED <<readings, exc, serial_port, sess>>
                   ELSE /\ serial_port' = x.port
                        /\ sess' = x.sess
                        /\ IF r.kind = "return"
                             THEN /\ readings' = r.val
                                  /\ pc' = "parse"
                                  /\ exc' = exc
                             ELSE /\ exc' = r.exc
                                  /\ pc' = "done"
                                  /\ readings' = readings
  /\ UNCHANGED <<config, last_rain, ntries, packet, data, yielded, nyield,
                 prev_ltr, slept>>

\* from 'data = Station.parse_readings(readings)' to the yield; an exception
\* of parse_readings is none of those the except clause names
Parse ==
  /\ pc = "parse"
  /\ LET r == ParseOf[readings]
     IN  IF r.exc = ""
           THEN LET p == MergeData(packet, r.val)
                IN  /\ data' = r.val
                    /\ packet' = augment_packet(last_rain, p)
                    /\ last_rain' = NewLastRain(packet')
                    /\ yielded' = packet'
                    /\ prev_ltr' = IF nyield = 0 THEN None
                                   ELSE yielded["long_term_rain"]
                    /\ ntries' = AfterSuccess(ntries)
                    /\ consec' = 0
                    /\ nyield' = nyield + 1
                    /\ pc' = "yield"
                    /\ exc' = exc
           ELSE /\ exc' = r.exc
                /\ pc' = "done"
                /\ UNCHANGED <<data, packet, last_rain, yielded, prev_ltr,
                               ntries, consec, nyield>>
  /\ UNCHANGED <<config, readings, serial_port, now, line, sess, nfail, slept>>

\* the caller asks for the next record: the generator goes on after the
\* yield
Resume ==
  /\ pc = "yield"
  /\ nyield < MaxRecords
  /\ IF PollSleeps(polling_interval)
       THEN /\ now' = Sleep(polling_interval)
            /\ slept' = Append(slept, <<"polling_interval", polling_interval>>)
       ELSE UNCHANGED <<now, slept>>
  /\ pc' = "loop"
  /\ UNCHANGED <<config, last_rain, ntries, packet, readings, data,
                 serial_port, exc, line, sess, consec, nfail, yielded, nyield,
                 prev_ltr>>

\* the except clause: logerr and time.sleep(self.retry_wait)
Except ==
  /\ pc = "except"
  /\ now' = Sleep(retry_wait)
  /\ slept' = Append(slept, <<"retry_wait", retry_wait>>)
  /\ pc' = "loop"
  /\ UNCHANGED <<config, last_rain, ntries, packet, readings, data,
                 serial_port, exc, line, sess, consec, nfail, yielded, nyield,
                 prev_ltr>>

Next == LoopTest \/ Open \/ Read \/ Parse \/ Resume \/ Except

Spec == Init /\ [][Next]_vars


(***************************************************************************)
(* _augment_packet on its own: one driver instance is handed a sequence of *)
(* decoded packets whose long_term_rain varies, as a station's total       *)
(* would, and each augmented packet is handed on.                          *)
(***************************************************************************)
RainTotals == {0, 5, 10, 100}

AugmentInputs ==
  { Update(ParseOf[ReadOf[raw].val].val, "long_term_rain" :> Float(r)) :
      raw \in { "0R1,Dn=045#,Dm=090#,Dx=180#,Sn=1.1M,Sm=2.2M,Sx=3.3M\r\n",
                "0R1,Dn=045#,Dm=090#,Dx=180#,Sn=0.0M,Sm=0.0M,Sx=0.5M\r\n",
                "0R2,Ta=21.2C,Ua=40.5P,Pa=1013.2H\r\n" },
      r \in RainTotals }

AugmentCall ==
  /\ nyield <= MaxRecords
  /\ \E p \in AugmentInputs :
       /\ packet' = augment_packet(last_rain, p)
       /\ last_rain' = p["long_term_rain"]
       /\ yielded' = packet'
       /\ prev_ltr' = IF nyield = 0 THEN None ELSE yielded["long_term_rain"]
       /\ nyield' = nyield + 1
  /\ UNCHANGED <<config, pc, ntries, readings, data, serial_port, exc, now,
                 line, sess, consec, nfail, slept>>

SpecAugment == Init /\ [][AugmentCall]_vars

(***************************************************************************)
(* The claims.                                                             *)
(***************************************************************************)

\* C1: the loop never makes more than max_tries failed attempts in a row;
\* when max_tries attempts in a row have failed, the next step of the loop
\* raises RetriesExceeded, and once the generator has ended nothing happens
\* any more: no attempt starts and no record is yielded.
C1_RetriesExceeded ==
  [][ /\ (consec' > 0 => consec' <= max_tries)
      /\ (pc = "loop" /\ consec = max_tries =>
            pc' = "done" /\ exc' = "RetriesExceeded" /\ nyield' = nyield)
      /\ pc # "done" ]_vars

C1_Witness ==
  /\ pc = "done" /\ exc = "RetriesExceeded"
  /\ max_tries >= 2 /\ consec = max_tries

\* C2: a successful attempt resets the counter: at the yield ntries is 0, at
\* the while test ntries is the number of attempts that failed since the
\* last success, and RetriesExceeded is raised only when max_tries attempts
\* failed since the last success, whatever failed before it.
C2_SuccessResets ==
  /\ (pc = "yield" => ntries = 0 /\ consec = 0)
  /\ (pc = "loop" => ntries = consec)
  /\ (exc = "RetriesExceeded" /\ max_tries > 0 => consec = max_tries)

C2_Witness ==
  /\ exc = "RetriesExceeded"
  /\ nyield >= 1 /\ nfail > consec
  /\ max_tries >= 2 /\ consec = max_tries

\* the line raw as get_readings sees it
Stripped(raw) == Remove(raw, "\r\n")

\* raw passes the pattern and its first token splits, but one of its fields
\* is malformed: a token without exactly one '=', or a value that
\* parse_readings extracts and float() refuses
HasMalformedField(raw) ==
  LET s  == Stripped(raw)
      ss == Split(s, ",")
  IN  /\ raw \in Lines
      /\ re_match(s)
      /\ Len(Split(ss[1], "R")) = 2
      /\ \/ ~PairsOk(Tail(ss))
         \/ ParseOf[ReadOf[raw].val].exc = "ValueError"

MalformedOf == [raw \in Lines |-> HasMalformedField(raw)]
MatchOf     == [raw \in Lines |-> re_match(Stripped(raw))]

\* C3 (as claimed): an attempt that read a packet with a malformed field
\* ends in the except clause, counted as one more failed attempt, and the
\* loop goes on.
C3_MalformedRetried ==
  [][ (pc \in {"read", "parse"} /\ pc' \notin {"read", "parse"}
         /\ MalformedOf[line'])
      => (pc' = "except" /\ consec' = consec + 1) ]_vars

\* C4 (as claimed): a line that does not match the pattern, empty or not, is
\* dropped: get_readings reads on in the same session, nothing is counted,
\* nothing is yielded and no exception leaves the generator.
C4_NonMatchingDiscarded ==
  [][ (pc = "read" /\ pc' # "except" /\ ~MatchOf[line'])
      => /\ pc' = "read" /\ serial_port' = "open" /\ sess' = sess
         /\ consec' = consec /\ nyield' = nyield /\ exc' = "" ]_vars

\* C5: in every attempt at most one serial port is opened; it is open
\* exactly while the attempt is inside the with block, and on leaving the
\* block, whichever way, close has been called on it exactly once; an
\* attempt whose open failed has no port and no close.
C5_SessionClosedOnce ==
  /\ sess.opened \in {0, 1}
  /\ sess.closed <= sess.opened
  /\ (pc # "read" => sess.closed = sess.opened)
  /\ (pc = "read" => sess.opened = 1 /\ sess.closed = 0)
  /\ (serial_port = "open" <=> sess.closed < sess.opened)

C5_Witness ==
  /\ pc = "done" /\ exc = "ValueError"
  /\ ReadOf[line].kind = "raise"
  /\ sess = [opened |-> 1, closed |-> 1]
  /\ serial_port = "None"

C7_ZeroWindNoDir ==
  pc = "yield" =>
    IF "windSpeed" \in DOMAIN yielded
      THEN IF Val(yielded["windSpeed"]) = 0
             THEN yielded["windDir"] = None
             ELSE yielded["windDir"] = remove_unit(readings["Dm"]).val
      ELSE "windDir" \notin DOMAIN yielded

C7_Witness ==
  /\ pc = "yield"
  /\ "windSpeed" \in DOMAIN yielded /\ yielded["windSpeed"] = Float(0)
  /\ readings["Dm"] = "090#"
  /\ yielded["windDir"] = None

\* the mapping C8 states: for each type, <<wire code, canonical field>>
C8_Map ==
  ("1" :> { <<"Dn", "windDirMin">>, <<"Dm", "windDir">>,
            <<"Dx", "windDirMax">>, <<"Sn", "windSpeedMin">>,
            <<"Sm", "windSpeed">>, <<"Sx", "windSpeedMax">> }) @@
  ("2" :> { <<"Pa", "pressure">>, <<"Ua", "outHumidity">>,
            <<"Ta", "outTemp">> }) @@
  ("3" :> { <<"Rc", "rainAccumulation">>, <<"Rd", "rainDuration">>,
            <<"Ri", "rainIntensity">>, <<"Rp", "rainPeakIntensity">>,
            <<"Hc", "hailAccumulation">>, <<"Hd", "hailDuration">>,
            <<"Hi", "hailIntensity">>, <<"Hp", "hailPeakIntensity">> }) @@
  ("5" :> { <<"Th", "heatingTemp">>, <<"Vh", "heatingVoltage">>,
            <<"Vs", "supplyVoltage">>, <<"Vr", "referenceVoltage">> })

\* the fields parse_readings sets whatever the type
CommonFields ==
  {"long_term_rain", "inTemp", "inHumidity", "daily_rain", "wind_average"}

C8_Example == "0R1,Dn=045#,Dm=090#,Dx=180#,Sn=1.1M,Sm=2.2M,Sx=3.3M\r\n"

\* C8: the data parse_readings returns for the packet just yielded holds,
\* for a packet of type 1, 2, 3 or 5, each field of that type with the value
\* of its wire code, unit character removed, and no field of another type;
\* the packet of the example gives 45, 90, 180, 1.1, 2.2, 3.3.
C8_DecodeMapping ==
  pc = "yield" =>
    LET t    == readings["pkt_type"]
        mine == IF t \in DOMAIN C8_Map THEN C8_Map[t] ELSE {}
    IN  /\ \A m \in mine : data[m[2]] = remove_unit(readings[m[1]]).val
        /\ DOMAIN data = CommonFields \cup {m[2] : m \in mine}
        /\ line = C8_Example =>
             /\ data["windDirMin"] = Float(4500)
             /\ data["windDir"] = Float(9000)
             /\ data["windDirMax"] = Float(18000)
             /\ data["windSpeedMin"] = Float(110)
             /\ data["windSpeed"] = Float(220)
             /\ data["windSpeedMax"] = Float(330)

C8_Witness ==
  /\ pc = "yield" /\ line = C8_Example
  /\ data["windDirMin"] = Float(4500) /\ data["windSpeedMax"] = Float(330)

\* C9: a packet that get_readings returned and whose type is none of 1, 2,
\* 3, 5 is decoded without an exception: the attempt succeeds and the record
\* yielded holds the loop's fields and the constants only.
C9_UnknownType ==
  [][ (pc = "parse" /\ readings["pkt_type"] \notin {"1", "2", "3", "5"})
      => /\ pc' = "yield" /\ exc' = ""
         /\ ntries' = 0 /\ consec' = 0 /\ nyield' = nyield + 1
         /\ DOMAIN yielded' = {"dateTime", "usUnits", "rain"} \cup CommonFields
    ]_vars

C9_Witness ==
  /\ pc = "yield"
  /\ readings["pkt_type"] = "0" /\ readings["Ta"] = "xxC"
  /\ DOMAIN yielded = {"dateTime", "usUnits", "rain"} \cup CommonFields

\* the pattern as C10 states it: a digit, the marker letter, a digit, a comma
C10_Pattern(s) ==
  /\ Len(s) >= 4
  /\ Char(s, 1) \in Digits /\ Char(s, 2) = "R" /\ Char(s, 3) \in Digits
  /\ Char(s, 4) = ","

\* the pattern without the comma
C10_Prefix(s) ==
  /\ Len(s) >= 3
  /\ Char(s, 1) \in Digits /\ Char(s, 2) = "R" /\ Char(s, 3) \in Digits

\* the codes of the fields of the line s
C10_Codes(s) == LET ss == Split(s, ",")
                IN  {Split(ss[i], "=")[1] : i \in 2 .. Len(ss)}

\* what C10 needs of each line of Lines, worked out once
C10_Of ==
  [raw \in Lines |->
     LET s == Stripped(raw)
     IN  [s |-> s, first |-> Split(s, ",")[1], codes |-> C10_Codes(s),
          pattern |-> C10_Pattern(s), prefix |-> C10_Prefix(s)]]

C11_Without ==
  ("0R2,Ta=-1.5C,Ua=40.5P,Pa=1013.2H,Zz=9.9Q\r\n" :>
     "0R2,Ta=-1.5C,Ua=40.5P,Pa=1013.2H\r\n") @@
  ("0R2,Ta=21.2C,Ua=40.5P,Pa=1013.2H,pkt_type=4\r\n" :>
     "0R2,Ta=21.2C,Ua=40.5P,Pa=1013.2H\r\n")

\* what parse_readings returns for the packet without the field
C11_Expected ==
  [raw \in DOMAIN C11_Without |->
     parse_readings(SplitLine(Stripped(C11_Without[raw])).val).val]

\* C11 (as claimed): a packet of a known type that carries a field whose
\* code is none of its type's is decoded without an exception, into the
\* same data as the packet without that field.
C11_UnknownFieldIgnored ==
  [][ (pc = "parse" /\ line \in DOMAIN C11_Without)
      => (pc' = "yield" /\ data' = C11_Expected[line]) ]_vars

\* C11, for the foreign codes other than the two keys of the preamble
C11_UnknownFieldIgnoredButPreamble ==
  [][ (pc = "parse" /\ line \in DOMAIN C11_Without
         /\ {"station_id", "pkt_type"} \cap C10_Of[line].codes = {})
      => (pc' = "yield" /\ data' = C11_Expected[line]) ]_vars

\* the names of the fields parse_readings extracts for each packet type
C12_TypeKeys ==
  [t \in {"1", "2", "3", "5"} |->
     CASE t = "1" -> {"windSpeedMax", "windSpeed", "windSpeedMin",
                      "windDirMax", "windDir", "windDirMin"}
       [] t = "2" -> {"pressure", "outHumidity", "outTemp"}
       [] t = "3" -> {"rainAccumulation", "rainDuration", "rainIntensity",
                      "rainPeakIntensity", "hailAccumulation", "hailDuration",
                      "hailIntensity", "hailPeakIntensity"}
       [] t = "5" -> {"heatingTemp", "heatingVoltage", "supplyVoltage",
                      "referenceVoltage"}]

\* C12: every record handed to the caller, whatever its packet type and its
\* position in the stream, carries an integer dateTime, the unit-system
\* identifier usUnits and a rain field that is null or a number, together
\* with the fields of its packet type.
C12_RecordShape ==
  pc = "yield" =>
    /\ {"dateTime", "usUnits", "rain"} \subseteq DOMAIN yielded
    /\ yielded["dateTime"] \in Nat
    /\ yielded["usUnits"] = US
    /\ \/ yielded["rain"] = None
       \/ yielded["rain"] = Float(Val(yielded["rain"]))
            /\ Val(yielded["rain"]) \in Int
    /\ readings["pkt_type"] \in DOMAIN C12_TypeKeys
         => /\ C12_TypeKeys[readings["pkt_type"]] \subseteq DOMAIN yielded
            /\ \A k \in C12_TypeKeys[readings["pkt_type"]] :
                 yielded[k] = data[k] \/ (k = "windDir" /\ yielded[k] = None)

\* a second record, of the precipitation type, with a numeric rain
C12_Witness ==
  /\ pc = "yield"
  /\ nyield = 2
  /\ readings["pkt_type"] = "3"
  /\ yielded["rain"] # None
  /\ "rainAccumulation" \in DOMAIN yielded

\* C13: while genLoopPackets is suspended at the yield, while it decodes and
\* augments, and during both sleeps, no session is open; at most one session
\* is open at any time.
C13_NoSessionOutsideRead ==
  /\ pc \in {"loop", "parse", "yield", "except", "done"}
       => /\ serial_port = "None"
          /\ sess.opened = sess.closed
  /\ sess.opened - sess.closed \in {0, 1}
  /\ sess.opened <= 1
  /\ serial_port = "open" => pc = "read" /\ sess.opened = sess.closed + 1

\* a record has been handed to the caller, its session opened and closed
C13_Witness ==
  /\ pc = "yield"
  /\ sess = [opened |-> 1, closed |-> 1]
  /\ serial_port = "None"

\* C14 (as claimed): the timestamp of a yielded record is the clock value
\* sampled once the read has succeeded, never one sampled before the session
\* was opened or before the read blocked.  The clock does not move between
\* the end of the read and the yield, so the record would carry the rounded
\* clock of the state it is yielded in.
C14_StampAfterRead ==
  pc = "yield" => yielded["dateTime"] = (now + 1) \div 2

\* C14 (as the driver does it): the attempt first stamps the rounded clock
\* and the unit-system tag, before the session is opened; opening, reading
\* and decoding leave the stamp alone; on success the decoded fields are
\* merged in, rain is computed against the baseline carried so far, the
\* baseline becomes the record's long_term_rain, the direction of a zero
\* wind is nulled, and that record is the one yielded.
C14_StampAtStart ==
  [][ /\ (pc = "loop" /\ pc' = "open")
        => /\ packet' = ("dateTime" :> (now + 1) \div 2) @@ ("usUnits" :> US)
           /\ serial_port' = "None" /\ sess'.opened = 0
      /\ (pc \in {"open", "read"} /\ pc' \in {"read", "parse", "except"})
        => packet' = packet
      /\ (pc = "parse" /\ pc' = "yield")
        => /\ now' = now
           /\ yielded' = packet'
           /\ yielded'["dateTime"] = packet["dateTime"]
           /\ yielded'["usUnits"] = packet["usUnits"]
           /\ \A k \in DOMAIN data' \ {"windDir"} : yielded'[k] = data'[k]
           /\ yielded'["rain"] =
                IF last_rain = None THEN None
                ELSE Float(Val(data'["long_term_rain"]) - Val(last_rain))
           /\ last_rain' = yielded'["long_term_rain"]
           /\ ("windSpeed" \in DOMAIN data' /\ data'["windSpeed"] = Float(0))
                => yielded'["windDir"] = None ]_vars

\* a record is yielded whose stamp is older than the clock: time has passed
\* during the read
C14_Witness ==
  /\ pc = "yield"
  /\ sess = [opened |-> 1, closed |-> 1]
  /\ yielded["dateTime"] < (now + 1) \div 2

\* the sleeps due before the while test is reached again: one retry_wait
\* after a failed attempt, one polling_interval (none if it is zero) after a
\* yielded record, none before the first attempt
C15_Due ==
  IF consec > 0 THEN << <<"retry_wait", retry_wait>> >>
  ELSE IF nyield > 0 /\ polling_interval # 0
         THEN << <<"polling_interval", polling_interval>> >>
         ELSE <<>>

\* C15: between a yielded record and the next attempt the loop sleeps exactly
\* once, for polling_interval, and not at all when polling_interval is zero;
\* after each counted failure it sleeps exactly once, for retry_wait; no
\* attempt starts without its sleep, and never with the other one.
C15_SleepsBetweenAttempts ==
  [][ /\ (pc = "loop" /\ pc' = "open") => slept = C15_Due
      /\ (pc = "yield" /\ pc' = "loop")
           => /\ slept' = IF polling_interval = 0 THEN slept
                          ELSE Append(slept, <<"polling_interval",
                                                polling_interval>>)
              /\ now' = Min(now + 2 * polling_interval, MaxTime)
      /\ (pc = "except" /\ pc' = "loop")
           => /\ slept' = Append(slept, <<"retry_wait", retry_wait>>)
              /\ now' = Min(now + 2 * retry_wait, MaxTime)
      /\ slept' # slept => pc' \in {"loop", "open"} ]_vars

\* a failed attempt that follows a yielded record is at the while test again
\* and has taken the retry sleep only
C15_Witness ==
  /\ pc = "loop"
  /\ nyield >= 1
  /\ consec >= 1
  /\ polling_interval # 0
  /\ slept = << <<"retry_wait", retry_wait>> >>

\* an attempt is about to start after a record, polling_interval being zero
C15_WitnessNoSleep ==
  /\ pc = "loop"
  /\ nyield >= 1
  /\ consec = 0
  /\ polling_interval = 0
  /\ slept = <<>>

\* C16: a failed attempt leaves last_rain as it was; last_rain changes only
\* when an attempt succeeds, and then to the long_term_rain of the record
\* yielded, so the rain of a record is its long_term_rain less that of the
\* record yielded before it, whatever failed in between.
C16_BaselineOnlyOnSuccess ==
  [][ /\ last_rain' # last_rain => pc = "parse" /\ pc' = "yield"
      /\ (pc' = "except" \/ pc = "except") => last_rain' = last_rain
      /\ nyield' = 0 => last_rain' = None
      /\ nyield' >= 1 => last_rain' = yielded'["long_term_rain"]
      /\ (pc = "parse" /\ pc' = "yield" /\ nyield >= 1)
           => yielded'["rain"] = Float(Val(yielded'["long_term_rain"])
                                        - Val(yielded["long_term_rain"])) ]_vars

\* an attempt has failed after a record was yielded, and the baseline is
\* still that record's long_term_rain
C16_Witness ==
  /\ pc = "except"
  /\ nyield = 1
  /\ consec >= 1
  /\ last_rain # None
  /\ last_rain = yielded["long_term_rain"]

\* the lines of Lines that are empty once the line ending is removed: what
\* readline() gives when its timeout expires, and a bare line ending
C17_Empty == [raw \in Lines |-> Stripped(raw) = ""]

\* C17: a read that returns an empty line does not end the attempt:
\* get_readings goes on reading on the same open session, no failure is
\* counted, nothing is yielded and no exception is raised; an attempt that
\* reads empty lines only therefore never completes.
C17_EmptyLinesNeverComplete ==
  [][ (pc = "read" /\ pc' # "except" /\ C17_Empty[line'])
      => /\ pc' = "read"
         /\ serial_port' = "open" /\ sess' = sess
         /\ UNCHANGED <<ntries, consec, nfail, nyield, yielded, exc,
                        last_rain, slept>> ]_vars

\* the attempt is still reading after an empty line, with its session open
\* and all the time of the model gone by
C17_Witness ==
  /\ pc = "read"
  /\ C17_Empty[line]
  /\ line # ""
  /\ serial_port = "open"
  /\ sess = [opened |-> 1, closed |-> 0]
  /\ now = MaxTime
  /\ exc = ""

\* C18: in every record genLoopPackets yields, whatever its packet type and
\* payload, long_term_rain is 0; rain is null in the first record and 0 in
\* every later one; last_rain is unset or 0 throughout.
C18_RainAlwaysZero ==
  /\ last_rain \in {None, Float(0)}
  /\ nyield = 0 => last_rain = None
  /\ nyield >= 1
       => /\ yielded["long_term_rain"] = Float(0)
          /\ yielded["rain"] = IF nyield = 1 THEN None ELSE Float(0)
          /\ last_rain = Float(0)

\* a precipitation packet reporting an accumulation is the second record
C18_Witness ==
  /\ pc = "yield"
  /\ nyield = 2
  /\ readings["pkt_type"] = "3"
  /\ yielded["rainAccumulation"] = Float(5)
  /\ yielded["rain"] = Float(0)
  /\ prev_ltr = Float(0)

\* C19: with max_tries zero or negative the first request for a record
\* raises RetriesExceeded and no attempt is made: no session is opened,
\* nothing is read, no sleep is taken and no record is yielded.
C19_NoAttemptWithoutTries ==
  max_tries <= 0
    => /\ pc \in {"loop", "done"}
       /\ pc = "done" => exc = "RetriesExceeded"
       /\ pc = "loop" => exc = ""
       /\ ntries = 0
       /\ sess = [opened |-> 0, closed |-> 0]
       /\ serial_port = "None"
       /\ line = "" /\ readings = EmptyDict
       /\ slept = <<>> /\ now = 0
       /\ nyield = 0 /\ nfail = 0 /\ yielded = EmptyDict

\* the first request has raised RetriesExceeded, max_tries being negative
C19_Witness ==
  /\ max_tries < 0
  /\ pc = "done"
  /\ exc = "RetriesExceeded"
  /\ ntries = 0

\* the same with max_tries zero
C19_WitnessZero ==
  /\ max_tries = 0
  /\ pc = "done"
  /\ exc = "RetriesExceeded"

=============================================================================
